---- MODULE Spec2Model ----
(***************************************************************************)
(* WindowServo: the speech-to-actuator pipeline of RaspberryPi_ws.         *)
(*                                                                         *)
(*   VoskSTTEngine      (voskCore.py)      capture thread, watchdog timer, *)
(*                                         start/stop/cleanup lifecycle    *)
(*   MultiOutputHandler (outputHandler.py) fan-out of one event to sinks   *)
(*   SimpleESP32Handler (outputHandler.py) text -> command -> serial link  *)
(*                                                                         *)
(* Each component has its own specification; the variables of the other    *)
(* components stay at their initial values in it.                          *)
(*                                                                         *)
(* Granularity of the engine: every `with self._state_lock:` block and     *)
(* every `with self._timer_lock:` block is one atomic action (the blocks   *)
(* never block inside and all accesses to the flags go through them);      *)
(* the statements between the blocks are separate actions, so that other   *)
(* threads interleave exactly where the code holds no lock.                *)
(***************************************************************************)
EXTENDS Integers, Sequences, FiniteSets, TLC

(***************************************************************************)
(* Bounds of the model and program constants.                              *)
(***************************************************************************)
\* number of start_listening calls that get past the already-listening test
MaxStarts == 2
\* number of cleanup() calls
MaxCleanups == 2
\* config['auto_stop_seconds']
AutoStopSeconds == 8
\* number of distinct sinks, and length of MultiOutputHandler.handlers
NumSinks == 2
MaxHandlers == 3
\* number of chunks (a word, a blank, a brace, a whole JSON object) that make
\* up a text handed to SimpleESP32Handler.send
MaxChunks == 3
\* number of add_file_handler / add_openai_handler / add_simple_esp32_handler
\* calls made on one STTOutputManager
MaxAdds == 2
\* largest retry_count an OpenAIAPIHandler is made with (3 is the default)
MaxRetryCount == 3
\* number of send / send_command calls made on one SimpleESP32Handler
MaxCalls == 2
\* number of Partial / Final events that reach the dispatcher
MaxEvents == 3

\* threads of the host program that call the engine's public methods: the
\* control thread of main.py (run_keyboard_trigger), which calls all of them,
\* and a second thread that calls stop_listening only
Main == "c1"
Controllers == {"c1", "c2"}
\* listening episodes: episode e owns capture thread e and watchdog timer e
Episodes == 1..MaxStarts
\* the sinks (OutputHandler objects) a MultiOutputHandler can hold
Sinks == 1..NumSinks
\* None, for the handles audio_thread and auto_stop_timer and for the duration
None == 0

VARIABLES
    \* ---- VoskSTTEngine fields (voskCore.py 24-56) ----
    is_initialized,      \* BOOLEAN
    is_listening,        \* BOOLEAN
    is_running,          \* BOOLEAN
    shutdown_requested,  \* BOOLEAN, self._shutdown_requested
    stop_event,          \* BOOLEAN, self._stop_event.is_set()
    auto_stop_duration,  \* None or seconds
    auto_stop_timer,     \* None or the id of a threading.Timer
    audio_thread,        \* None or the id of a capture thread
    recognizer,          \* id of the current KaldiRecognizer instance
    stream,              \* "stopped" | "active" | "closed"  (pyaudio stream)
    audio_interface,     \* "open" | "terminated"           (pyaudio.PyAudio)
    \* ---- threads ----
    thr,                 \* capture thread e: "dead" (not started, or ended) or
                         \* its position in _audio_processing_loop: "poll",
                         \* "read" (in the stream calls of lines 260-262),
                         \* "decode" (in the recognizer calls of lines
                         \* 265-275), "cb" (in a result callback), "sent" (in
                         \* the callback, the dispatcher has the event),
                         \* "overflow"
                         \* (at line 280 with an input overflow), "err" (in
                         \* on_error, called with any other exception)
    tmr,                 \* watchdog timer e: "dead" (not started, cancelled
                         \* or finished), "armed" or "firing"
    cpc,                 \* controller c: position in the method it is running
    ret,                 \* controller c: how that call ended
    my,                  \* controller c: episode of its start_listening call
    \* ---- observations ----
    episodes,            \* start_listening calls that began an episode
    cleanups,            \* cleanup() calls begun
    emitted,             \* callbacks invoked and hardware handles released,
                         \* counted per name (see Observed)
    events,              \* the Partial / Final events that reached the
                         \* dispatcher, in order, each by the episode of
                         \* the capture thread that delivered it
    stopped,             \* the episodes whose stop_listening has passed
                         \* "listening_stopped" to on_status_change
    \* ---- MultiOutputHandler (outputHandler.py 488-516) ----
    handlers,            \* self.handlers: sequence of sink ids
    dpc,                 \* position of send(): "idle" | "loop" | "done"
    didx,                \* index of the handler the loop is at
    results,             \* the local list `results`
    calls,               \* the send() calls made on sinks by this dispatch:
                         \* <<sink, what its send() did>>, in call order
    dret,                \* value returned by send(): "none" | "True" | "False"
    escaped,             \* an exception left send()
    \* ---- SimpleESP32Handler (outputHandler.py 81-369) ----
    esp_text,            \* the argument `text` of send(), a sequence of atoms
    esp_pc,              \* "wait" (no call yet) | "idle" (send() called) |
                         \* "attempt" (in send_command's loop) | "done"
    sc_calls,            \* the `command` arguments send_command was called with
    command,             \* send_command's local `command` after strip()
    attempt,             \* 1..6: combination the loop of send_command is at
    wire,                \* the lines that went out on the serial link during
                         \* the call, with their encoding
    esp_ret,             \* what the call returned: "none" | "True" | "False",
                         \* or "raised" when an exception left it
    is_connected,        \* self.is_connected
    link,                \* the serial device: "good" (every operation returns),
                         \* "bad" (every write raises serial.SerialException)
                         \* or "flaky" (each operation returns or raises)
    tried,               \* the passes of send_command's loops in this call:
                         \* [encoding, newline, outcome]
    port,                \* self.serial_connection.is_open: "open" | "closed"
    close_raised,        \* the last serial_connection.close() raised
    cleaned,             \* cleanup() has returned at least once
    esp_call,            \* the method the caller called: "send" |
                         \* "send_command"
    esp_calls,           \* number of calls made by CallSend, CallSendCommand
    \* ---- STTOutputManager (outputHandler.py 518-604) ----
    partial_handler,     \* self.partial_handler.handlers: sequence of sink ids
    final_handler,       \* self.final_handler.handlers
    complete_handler,    \* self.complete_handler.handlers
    made,                \* the sinks the add_* methods created, in order:
                         \* [via |-> method, target |-> its argument `target`]
    event,               \* kind of the last event handled, or "none"
    delivered,           \* the send(text, metadata) calls the last event led
                         \* to: [sink |-> id, type |-> metadata['type']]
    served,              \* how many of them have been made so far, where the
                         \* calls are followed one by one (SinkSend)
    \* ---- OpenAIAPIHandler (outputHandler.py 374-486) ----
    retry_count,         \* self.retry_count
    esp32_handler,       \* BOOLEAN: self.esp32_handler is not None
    api_pc,              \* position of send(): "idle" | "loop" | "forward" |
                         \* "done"
    api_attempt,         \* the loop variable `attempt`
    responses,           \* outcomes of the HTTP attempts made, in order
    sleeps,              \* the arguments of the time.sleep calls, in order
    forwarded,           \* the texts given to esp32_handler.send
    api_ret              \* "none" | "True" | "False" | "raised"

engineVars == <<is_initialized, is_listening, is_running, shutdown_requested,
                stop_event, auto_stop_duration, auto_stop_timer, audio_thread,
                recognizer, stream, audio_interface>>
threadVars == <<thr, tmr>>
ctlVars == <<cpc, ret, my>>
obsVars == <<episodes, cleanups, emitted>>
loopVars == <<events, stopped>>
dispatchVars == <<handlers, dpc, didx, results, calls, dret, escaped>>
espVars == <<esp_text, esp_pc, sc_calls, command, attempt, wire, esp_ret,
             is_connected, link, tried, port, close_raised, cleaned, esp_call,
             esp_calls>>
managerVars == <<partial_handler, final_handler, complete_handler, made,
                 event, delivered, served>>
apiVars == <<retry_count, esp32_handler, api_pc, api_attempt, responses,
             sleeps, forwarded, api_ret>>
sinkVars == <<dispatchVars, espVars, managerVars, apiVars>>
engineSide == <<engineVars, threadVars, ctlVars, obsVars, loopVars>>
upstreamVars == <<engineSide, managerVars, apiVars>>
vars == <<engineSide, sinkVars>>

(***************************************************************************)
(* Helpers.                                                                *)
(***************************************************************************)
\* threading.Thread.is_alive() of capture thread e
ThreadAlive(e) ==
    /\ e # None
    /\ thr[e] \in {"poll", "read", "decode", "cb", "sent", "overflow", "err"}

\* threading.Timer.is_alive(): waiting for its interval or running its function
TimerAlive(t) == t # None /\ tmr[t] \in {"armed", "firing"}

\* threading.Timer.cancel(): stops a timer that is still waiting; a timer that
\* has passed its wait runs its function all the same
Cancel(t) == [tmr EXCEPT ![t] = IF @ = "armed" THEN "dead" ELSE @]

\* Thread.join(timeout=...) on thread t returns: the thread has ended, or the
\* timeout elapsed. The poll of the loop takes milliseconds; only a
\* read, a decode or a result callback outlasts the timeout.
\* a join without timeout
JoinReturns_NoTimeout(t) == ~ThreadAlive(t)

JoinReturns(t) ==
    IF ThreadAlive(t) THEN thr[t] \in {"read", "decode", "cb", "sent"}
    ELSE TRUE

Emit(name) == [emitted EXCEPT ![name] = @ + 1]

Return(c, how) == /\ cpc' = [cpc EXCEPT ![c] = "idle"]
                  /\ ret' = [ret EXCEPT ![c] = how]

Goto(c, pc) == /\ cpc' = [cpc EXCEPT ![c] = pc]
               /\ UNCHANGED ret

\* what `emitted` counts: the three statuses passed to on_status_change,
\* "final_result", the calls of _safe_get_final_result, each of which passes
\* at most one Complete event to on_complete_result, and the calls of
\* stream.close() and audio_interface.terminate()
Observed == {"listening_started", "listening_stopped", "cleaned_up",
             "final_result", "stream_close", "terminate"}

(***************************************************************************)
(* State after VoskSTTEngine.__init__ succeeded: model loaded, stream      *)
(* opened and stopped, no thread, no timer.                                *)
(***************************************************************************)
InitEngine ==
    /\ is_initialized = TRUE
    /\ is_listening = FALSE
    /\ is_running = FALSE
    /\ shutdown_requested = FALSE
    /\ stop_event = FALSE
    /\ auto_stop_duration = None
    /\ auto_stop_timer = None
    /\ audio_thread = None
    /\ recognizer = 0
    /\ stream = "stopped"
    /\ audio_interface = "open"
    /\ thr = [e \in Episodes |-> "dead"]
    /\ tmr = [e \in Episodes |-> "dead"]
    /\ ret = [c \in Controllers |-> "none"]
    /\ my = [c \in Controllers |-> None]
    /\ episodes = 0
    /\ cleanups = 0
    /\ emitted = [n \in Observed |-> 0]
    /\ events = <<>>
    /\ stopped = {}

InitDispatch ==
    /\ handlers = <<>>
    /\ dpc = "idle"
    /\ didx = 0
    /\ results = <<>>
    /\ calls = <<>>
    /\ dret = "none"
    /\ escaped = FALSE

(***************************************************************************)
(* VoskSTTEngine.start_listening (voskCore.py 157-196).                    *)
(***************************************************************************)
\* controllers that have called start_listening and not yet passed its test
AtStartTest == {c \in Controllers : cpc[c] = "s_block"}

CallStart(c) ==
    /\ cpc[c] = "idle"
    /\ episodes + Cardinality(AtStartTest) < MaxStarts
    /\ cpc' = [cpc EXCEPT ![c] = "s_block"]
    /\ ret' = [ret EXCEPT ![c] = "none"]
    /\ UNCHANGED <<engineVars, threadVars, my, obsVars, sinkVars, loopVars>>

\* StartBlock without the test of lines 163-165
StartBlock_NoListeningTest(c) ==
    /\ cpc[c] = "s_block"
    /\ episodes < MaxStarts
    /\ shutdown_requested' = FALSE
    /\ stop_event' = FALSE
    /\ is_listening' = TRUE
    /\ is_running' = TRUE
    /\ recognizer' = recognizer + 1
    /\ episodes' = episodes + 1
    /\ my' = [my EXCEPT ![c] = episodes + 1]
    /\ IF stream = "closed"
       THEN /\ Return(c, "raised")
            /\ UNCHANGED stream
       ELSE /\ stream' = "active"
            /\ Goto(c, "s_spawn")
    /\ UNCHANGED <<is_initialized, auto_stop_duration, auto_stop_timer,
                   audio_thread, audio_interface>>
    /\ UNCHANGED <<threadVars, cleanups, emitted, sinkVars, loopVars>>

\* lines 159-178, one `with self._state_lock:` block. The flags are written
\* and the recognizer replaced before the stream is looked at; is_active()
\* and start_stream() of a closed pyaudio stream raise OSError, which leaves
\* the method with the flags already written.
StartBlock(c) ==
    /\ cpc[c] = "s_block"
    /\ IF ~is_initialized
       THEN /\ Return(c, "raised")
            /\ UNCHANGED <<engineVars, my, episodes>>
       ELSE IF is_listening
       THEN /\ Return(c, "noop")
            /\ UNCHANGED <<engineVars, my, episodes>>
       ELSE /\ shutdown_requested' = FALSE
            /\ stop_event' = FALSE
            /\ is_listening' = TRUE
            /\ is_running' = TRUE
            /\ recognizer' = recognizer + 1
            /\ episodes' = episodes + 1
            /\ my' = [my EXCEPT ![c] = episodes + 1]
            /\ IF stream = "closed"
               THEN /\ Return(c, "raised")
                    /\ UNCHANGED stream
               ELSE /\ stream' = "active"
                    /\ Goto(c, "s_spawn")
            /\ UNCHANGED <<is_initialized, auto_stop_duration, auto_stop_timer,
                           audio_thread, audio_interface>>
    /\ UNCHANGED <<threadVars, cleanups, emitted, sinkVars, loopVars>>

\* lines 181-182: a new daemon thread runs _audio_processing_loop
StartSpawn(c) ==
    /\ cpc[c] = "s_spawn"
    /\ audio_thread' = my[c]
    /\ thr' = [thr EXCEPT ![my[c]] = "poll"]
    /\ Goto(c, "s_timer")
    /\ UNCHANGED <<is_initialized, is_listening, is_running, shutdown_requested,
                   stop_event, auto_stop_duration, auto_stop_timer, recognizer,
                   stream, audio_interface, tmr, my, obsVars, sinkVars, loopVars>>

\* lines 185-192, one `with self._timer_lock:` block
StartTimer(c) ==
    /\ cpc[c] = "s_timer"
    /\ IF auto_stop_duration # None
       THEN /\ tmr' = [(IF TimerAlive(auto_stop_timer)
                        THEN Cancel(auto_stop_timer) ELSE tmr)
                       EXCEPT ![my[c]] = "armed"]
            /\ auto_stop_timer' = my[c]
       ELSE UNCHANGED <<tmr, auto_stop_timer>>
    /\ Goto(c, "s_emit")
    /\ UNCHANGED <<is_initialized, is_listening, is_running, shutdown_requested,
                   stop_event, auto_stop_duration, audio_thread, recognizer,
                   stream, audio_interface, thr, my, obsVars, sinkVars, loopVars>>

\* lines 194-196
StartEmit(c) ==
    /\ cpc[c] = "s_emit"
    /\ emitted' = Emit("listening_started")
    /\ Return(c, "ok")
    /\ UNCHANGED <<engineVars, threadVars, my, episodes, cleanups,
                   sinkVars, loopVars>>

(***************************************************************************)
(* VoskSTTEngine.stop_listening (voskCore.py 198-231).                     *)
(***************************************************************************)
CallStop(c) ==
    /\ cpc[c] = "idle"
    /\ cpc' = [cpc EXCEPT ![c] = "p_block"]
    /\ ret' = [ret EXCEPT ![c] = "none"]
    /\ UNCHANGED <<engineVars, threadVars, my, obsVars, sinkVars, loopVars>>

\* StopBlock without the test of lines 201-202
StopBlock_NoListeningTest(c) ==
    /\ cpc[c] = "p_block"
    /\ shutdown_requested' = TRUE
    /\ is_listening' = FALSE
    /\ stop_event' = TRUE
    /\ my' = [my EXCEPT ![c] = episodes]
    /\ Goto(c, "p_stream")
    /\ UNCHANGED <<is_initialized, is_running, auto_stop_duration,
                   auto_stop_timer, audio_thread, recognizer, stream,
                   audio_interface>>
    /\ UNCHANGED <<threadVars, obsVars, sinkVars, loopVars>>

\* lines 200-208, one `with self._state_lock:` block; my[c] is the episode
\* that this call ends
StopBlock(c) ==
    /\ cpc[c] = "p_block"
    /\ IF ~is_listening
       THEN /\ Return(c, "noop")
            /\ UNCHANGED <<engineVars, my>>
       ELSE /\ shutdown_requested' = TRUE
            /\ is_listening' = FALSE
            /\ stop_event' = TRUE
            /\ my' = [my EXCEPT ![c] = episodes]
            /\ Goto(c, "p_stream")
            /\ UNCHANGED <<is_initialized, is_running, auto_stop_duration,
                           auto_stop_timer, audio_thread, recognizer, stream,
                           audio_interface>>
    /\ UNCHANGED <<threadVars, obsVars, sinkVars, loopVars>>

\* StopStream with close() in the place of stop_stream()
StopStream_Closes(c) ==
    /\ cpc[c] = "p_stream"
    /\ IF stream = "closed"
       THEN /\ Return(c, "raised")
            /\ UNCHANGED stream
       ELSE /\ stream' = "closed"
            /\ Goto(c, "p_timer")
    /\ UNCHANGED <<is_initialized, is_listening, is_running, shutdown_requested,
                   stop_event, auto_stop_duration, auto_stop_timer, audio_thread,
                   recognizer, audio_interface, threadVars, my, obsVars,
                   sinkVars, loopVars>>

\* lines 210-211, no lock held; is_active() of a closed stream raises
StopStream(c) ==
    /\ cpc[c] = "p_stream"
    /\ IF stream = "closed"
       THEN /\ Return(c, "raised")
            /\ UNCHANGED stream
       ELSE /\ stream' = "stopped"
            /\ Goto(c, "p_timer")
    /\ UNCHANGED <<is_initialized, is_listening, is_running, shutdown_requested,
                   stop_event, auto_stop_duration, auto_stop_timer, audio_thread,
                   recognizer, audio_interface, threadVars, my, obsVars,
                   sinkVars, loopVars>>

\* lines 214-217, one `with self._timer_lock:` block
StopTimer(c) ==
    /\ cpc[c] = "p_timer"
    /\ IF TimerAlive(auto_stop_timer)
       THEN /\ tmr' = Cancel(auto_stop_timer)
            /\ auto_stop_timer' = None
       ELSE UNCHANGED <<tmr, auto_stop_timer>>
    /\ Goto(c, "p_join")
    /\ UNCHANGED <<is_initialized, is_listening, is_running, shutdown_requested,
                   stop_event, auto_stop_duration, audio_thread, recognizer,
                   stream, audio_interface, thr, my, obsVars, sinkVars, loopVars>>

\* lines 220-224: join(timeout=2.0), then the warning if the thread is alive
StopJoin(c) ==
    /\ cpc[c] = "p_join"
    /\ JoinReturns(audio_thread)
    /\ Goto(c, "p_flush")
    /\ UNCHANGED <<engineVars, threadVars, my, episodes, cleanups, emitted,
                   sinkVars, loopVars>>

\* line 227, _safe_get_final_result (233-243): FinalResult() of the current
\* recognizer; on_complete_result is called when its text is not empty
StopFlush(c) ==
    /\ cpc[c] = "p_flush"
    /\ emitted' = Emit("final_result")
    /\ Goto(c, "p_emit")
    /\ UNCHANGED <<engineVars, threadVars, my, episodes, cleanups,
                   sinkVars, loopVars>>

\* lines 229-231
StopEmit(c) ==
    /\ cpc[c] = "p_emit"
    /\ emitted' = Emit("listening_stopped")
    /\ stopped' = stopped \cup {my[c]}
    /\ Return(c, "ok")
    /\ UNCHANGED <<engineVars, threadVars, my, episodes, cleanups,
                   sinkVars, events>>

(***************************************************************************)
(* VoskSTTEngine.cleanup (voskCore.py 297-336).                            *)
(***************************************************************************)
CallCleanup(c) ==
    /\ cpc[c] = "idle"
    /\ cleanups < MaxCleanups
    /\ cleanups' = cleanups + 1
    /\ cpc' = [cpc EXCEPT ![c] = "k_flags"]
    /\ ret' = [ret EXCEPT ![c] = "none"]
    /\ UNCHANGED <<engineVars, threadVars, my, episodes, emitted,
                   sinkVars, loopVars>>

\* lines 301-304, one `with self._state_lock:` block
CleanupFlags(c) ==
    /\ cpc[c] = "k_flags"
    /\ shutdown_requested' = TRUE
    /\ is_running' = FALSE
    /\ is_listening' = FALSE
    /\ Goto(c, "k_event")
    /\ UNCHANGED <<is_initialized, stop_event, auto_stop_duration,
                   auto_stop_timer, audio_thread, recognizer, stream,
                   audio_interface, threadVars, my, obsVars, sinkVars, loopVars>>

\* line 307, outside the lock
CleanupEvent(c) ==
    /\ cpc[c] = "k_event"
    /\ stop_event' = TRUE
    /\ Goto(c, "k_timer")
    /\ UNCHANGED <<is_initialized, is_listening, is_running, shutdown_requested,
                   auto_stop_duration, auto_stop_timer, audio_thread, recognizer,
                   stream, audio_interface, threadVars, my, obsVars,
                   sinkVars, loopVars>>

\* lines 310-313, one `with self._timer_lock:` block
CleanupTimer(c) ==
    /\ cpc[c] = "k_timer"
    /\ IF TimerAlive(auto_stop_timer)
       THEN /\ tmr' = Cancel(auto_stop_timer)
            /\ auto_stop_timer' = None
       ELSE UNCHANGED <<tmr, auto_stop_timer>>
    /\ Goto(c, "k_join")
    /\ UNCHANGED <<is_initialized, is_listening, is_running, shutdown_requested,
                   stop_event, auto_stop_duration, audio_thread, recognizer,
                   stream, audio_interface, thr, my, obsVars, sinkVars, loopVars>>

\* lines 316-317: join(timeout=3.0)
CleanupJoin(c) ==
    /\ cpc[c] = "k_join"
    /\ JoinReturns(audio_thread)
    /\ Goto(c, "k_release")
    /\ UNCHANGED <<engineVars, threadVars, my, obsVars, sinkVars, loopVars>>

\* lines 320-332: stop and close the stream, terminate the audio interface.
\* self.stream and self.audio_interface are never set back to None: on a
\* closed stream is_active() raises before close() is reached, which is
\* logged and ignored, and terminate() is called whatever the state
CleanupRelease(c) ==
    /\ cpc[c] = "k_release"
    /\ stream' = "closed"
    /\ audio_interface' = "terminated"
    /\ emitted' = [emitted EXCEPT
                     !["stream_close"] = IF stream = "closed" THEN @ ELSE @ + 1,
                     !["terminate"] = @ + 1]
    /\ Goto(c, "k_emit")
    /\ UNCHANGED <<is_initialized, is_listening, is_running, shutdown_requested,
                   stop_event, auto_stop_duration, auto_stop_timer, audio_thread,
                   recognizer, threadVars, my, episodes, cleanups, sinkVars,
                   loopVars>>

\* lines 334-336
CleanupEmit(c) ==
    /\ cpc[c] = "k_emit"
    /\ emitted' = Emit("cleaned_up")
    /\ Return(c, "ok")
    /\ UNCHANGED <<engineVars, threadVars, my, episodes, cleanups,
                   sinkVars, loopVars>>

(***************************************************************************)
(* VoskSTTEngine.set_auto_stop_duration (voskCore.py 144-147).             *)
(***************************************************************************)
SetAutoStopDuration(c) ==
    /\ cpc[c] = "idle"
    /\ \E seconds \in {None, AutoStopSeconds} :
           /\ seconds # auto_stop_duration
           /\ auto_stop_duration' = seconds
    /\ ret' = [ret EXCEPT ![c] = "ok"]
    /\ UNCHANGED <<is_initialized, is_listening, is_running, shutdown_requested,
                   stop_event, auto_stop_timer, audio_thread, recognizer, stream,
                   audio_interface, threadVars, cpc, my, obsVars, sinkVars, loopVars>>

\* The host sets the duration between episodes, not while one is running.
Configure(c) == ~is_listening /\ SetAutoStopDuration(c)

(***************************************************************************)
(* The watchdog: threading.Timer(auto_stop_duration, _auto_stop_callback). *)
(***************************************************************************)
\* Timer.run: the interval elapsed and the timer was not cancelled
TimerExpire(t) ==
    /\ tmr[t] = "armed"
    /\ tmr' = [tmr EXCEPT ![t] = "firing"]
    /\ UNCHANGED <<engineVars, thr, ctlVars, obsVars, sinkVars, loopVars>>

\* AutoStopCallback that ends the episode itself
AutoStopCallback_Stops(t) ==
    /\ tmr[t] = "firing"
    /\ stop_event' = (stop_event \/ (is_listening /\ ~shutdown_requested))
    /\ is_listening' = FALSE
    /\ tmr' = [tmr EXCEPT ![t] = "dead"]
    /\ UNCHANGED <<is_initialized, is_running, shutdown_requested,
                   auto_stop_duration, auto_stop_timer, audio_thread, recognizer,
                   stream, audio_interface, thr, ctlVars, obsVars, sinkVars,
                   loopVars>>

\* _auto_stop_callback (voskCore.py 149-155), one `with self._state_lock:`
AutoStopCallback(t) ==
    /\ tmr[t] = "firing"
    /\ stop_event' = (stop_event \/ (is_listening /\ ~shutdown_requested))
    /\ tmr' = [tmr EXCEPT ![t] = "dead"]
    /\ UNCHANGED <<is_initialized, is_listening, is_running, shutdown_requested,
                   auto_stop_duration, auto_stop_timer, audio_thread, recognizer,
                   stream, audio_interface, thr, ctlVars, obsVars, sinkVars, loopVars>>

(***************************************************************************)
(* The capture thread: _audio_processing_loop (voskCore.py 245-295).       *)
(***************************************************************************)
\* lines 250-256: self._stop_event.wait(timeout=0.01), then the flags under
\* `with self._state_lock:`. The two tests are one action: between them the
\* event is set only together with a flag that ends the loop as well, or by
\* the watchdog, whose firing just after this action gives the same states.
LoopPoll(e) ==
    /\ thr[e] = "poll"
    /\ thr' = [thr EXCEPT ![e] =
                  IF stop_event THEN "dead"
                  ELSE IF ~is_running \/ ~is_listening \/ shutdown_requested
                  THEN "dead" ELSE "read"]
    /\ UNCHANGED <<engineVars, tmr, ctlVars, obsVars, sinkVars, loopVars>>

\* what lines 260-262 can come to on an active stream
ReadOutcomes == {"no_data", "overflow", "data", "fatal"}

\* lines 258-262: get_read_available() and read(), up to the data or to the
\* exception that takes the thread to line 280. A closed stream makes
\* get_read_available() raise; a stopped stream has nothing available.
LoopRead(e) ==
    /\ thr[e] = "read"
    /\ \E outcome \in ReadOutcomes :
         LET o == IF stream = "closed" THEN "fatal"
                  ELSE IF stream = "stopped" THEN "no_data"
                  ELSE outcome
         IN  thr' = [thr EXCEPT ![e] = CASE o = "fatal" -> "err"
                                         [] o = "overflow" -> "overflow"
                                         [] o = "data" -> "decode"
                                         [] OTHER -> "poll"]
    /\ UNCHANGED <<engineVars, tmr, ctlVars, obsVars, loopVars, sinkVars>>

\* what the recognizer calls of lines 265-275 can come to
DecodeOutcomes == {"text", "no_text", "fatal"}

\* lines 265-278 up to the call of a result callback: AcceptWaveform, then
\* Result() or PartialResult() of self.recognizer, with no lock held. An
\* empty text calls no callback.
LoopDecode(e) ==
    /\ thr[e] = "decode"
    /\ \E outcome \in DecodeOutcomes :
         thr' = [thr EXCEPT ![e] = CASE outcome = "fatal" -> "err"
                                     [] outcome = "text" -> "cb"
                                     [] OTHER -> "poll"]
    /\ UNCHANGED <<engineVars, tmr, ctlVars, obsVars, loopVars, sinkVars>>

\* the result callback of main.py 93-94 runs: handle_partial_result or
\* handle_final_result (outputHandler.py 594-600) passes the event of thread
\* e to its MultiOutputHandler
DispatchEvent(e) ==
    /\ thr[e] = "cb"
    /\ Len(events) < MaxEvents
    /\ events' = Append(events, e)
    /\ thr' = [thr EXCEPT ![e] = "sent"]
    /\ UNCHANGED <<engineVars, tmr, ctlVars, obsVars, stopped, sinkVars>>

\* lines 271 and 278: on_final_result / on_partial_result returns, or raises
\* into the handler of line 280
LoopCallback(e) ==
    /\ thr[e] \in {"cb", "sent"}
    /\ \E raised \in BOOLEAN :
         thr' = [thr EXCEPT ![e] = IF raised THEN "err" ELSE "poll"]
    /\ UNCHANGED <<engineVars, tmr, ctlVars, obsVars, loopVars, sinkVars>>

\* LoopExcept without the break of line 287
LoopExcept_NoBreak(e) ==
    /\ thr[e] \in {"overflow", "err"}
    /\ thr' = [thr EXCEPT ![e] = "poll"]
    /\ UNCHANGED <<engineVars, tmr, ctlVars, obsVars, loopVars, sinkVars>>

\* lines 280-287: after an "Input overflowed" error the loop goes on; after
\* any other exception on_error returns and the loop ends
LoopExcept(e) ==
    /\ thr[e] \in {"overflow", "err"}
    /\ thr' = [thr EXCEPT ![e] = IF thr[e] = "overflow" THEN "poll" ELSE "dead"]
    /\ UNCHANGED <<engineVars, tmr, ctlVars, obsVars, loopVars, sinkVars>>

\* SimpleESP32Handler after __init__ connected the port (lines 88-94, 135-160)
\* and before any text has arrived
InitTransport ==
    /\ sc_calls = <<>>
    /\ command = <<>>
    /\ attempt = 0
    /\ wire = <<>>
    /\ esp_ret = "none"
    /\ is_connected = TRUE
    /\ tried = <<>>
    /\ port = "open"
    /\ close_raised = FALSE
    /\ cleaned = FALSE
    /\ esp_call = "send"
    /\ esp_calls = 0

\* an OpenAIAPIHandler made with the defaults of line 378 and no actuator
InitRemote ==
    /\ retry_count = MaxRetryCount
    /\ esp32_handler = FALSE
    /\ api_pc = "idle"
    /\ api_attempt = 0
    /\ responses = <<>>
    /\ sleeps = <<>>
    /\ forwarded = <<>>
    /\ api_ret = "none"

\* the console sink that STTOutputManager.__init__ creates
Console == 0

\* STTOutputManager.__init__, lines 521-530
InitManager ==
    /\ partial_handler = <<Console>>
    /\ final_handler = <<Console>>
    /\ complete_handler = <<Console>>
    /\ made = <<>>
    /\ event = "none"
    /\ delivered = <<>>
    /\ served = 0

(***************************************************************************)
(* The engine's specifications: Spec with the single control thread of     *)
(* main.py's run_keyboard_trigger, SpecMT with two control threads.        *)
(***************************************************************************)
NextEngine ==
    \/ \E c \in {Main} :
         \/ CallStart(c) \/ StartBlock(c) \/ StartSpawn(c) \/ StartTimer(c)
         \/ StartEmit(c)
         \/ CallCleanup(c) \/ CleanupFlags(c) \/ CleanupEvent(c)
         \/ CleanupTimer(c) \/ CleanupJoin(c) \/ CleanupRelease(c)
         \/ CleanupEmit(c)
         \/ Configure(c)
    \/ \E c \in Controllers :
         \/ CallStop(c) \/ StopBlock(c) \/ StopStream(c) \/ StopTimer(c)
         \/ StopJoin(c) \/ StopFlush(c) \/ StopEmit(c)
    \/ \E e \in Episodes :
         \/ TimerExpire(e) \/ AutoStopCallback(e)
         \/ LoopPoll(e) \/ LoopRead(e) \/ LoopDecode(e) \/ LoopCallback(e)
         \/ LoopExcept(e)

Init ==
    /\ InitEngine
    /\ InitDispatch
    /\ InitTransport
    /\ InitManager
    /\ InitRemote
    /\ esp_pc = "wait"
    /\ esp_text = <<>>
    /\ link = "good"
    /\ cpc = [c \in Controllers |-> IF c = Main THEN "idle" ELSE "off"]

InitMT ==
    /\ InitEngine
    /\ InitDispatch
    /\ InitTransport
    /\ InitManager
    /\ InitRemote
    /\ esp_pc = "wait"
    /\ esp_text = <<>>
    /\ link = "good"
    /\ cpc = [c \in Controllers |-> "idle"]

Spec == Init /\ [][NextEngine]_vars

SpecMT == InitMT /\ [][NextEngine]_vars

\* Spec with the scheduling of the control thread inside cleanup(), whose
\* code from line 299 to line 336 has no unbounded wait, and of the capture
\* thread at its poll (a wait of 0.01 s) and in its exception handler. A read
\* and a result callback may last for ever.
SpecLive ==
    /\ Spec
    /\ WF_vars(CleanupFlags(Main))
    /\ WF_vars(CleanupEvent(Main))
    /\ WF_vars(CleanupTimer(Main))
    /\ WF_vars(CleanupJoin(Main))
    /\ WF_vars(CleanupRelease(Main))
    /\ WF_vars(CleanupEmit(Main))
    /\ \A e \in Episodes : WF_vars(LoopPoll(e)) /\ WF_vars(LoopExcept(e))

\* Spec with the scheduling of a capture thread whose reads, decoder calls
\* and callbacks all return: each step of _audio_processing_loop is taken
\* in the end. The control thread is under no obligation.
SpecLoopLive ==
    /\ Spec
    /\ \A e \in Episodes :
         /\ WF_vars(LoopPoll(e))
         /\ WF_vars(LoopRead(e))
         /\ WF_vars(LoopDecode(e))
         /\ WF_vars(LoopCallback(e))
         /\ WF_vars(LoopExcept(e))

\* the engine with its result callbacks set to the output manager's, as
\* main.py 92-98 sets them
NextEpisodes ==
    \/ NextEngine
    \/ \E e \in Episodes : DispatchEvent(e)

SpecEpisodes == Init /\ [][NextEpisodes]_vars

(***************************************************************************)
(* MultiOutputHandler (outputHandler.py 488-516).                          *)
(***************************************************************************)
\* what a sink's send(text, metadata) can do: return True, False or None
\* (OutputHandler.send, line 18, returns nothing), or raise an Exception
SinkOutcomes == {"True", "False", "None", "raise"}

\* bool(x) of a value a sink returned
Truthy(x) == x = "True"

\* any(results), line 516
AnyTrue(rs) == \E i \in 1..Len(rs) : Truthy(rs[i])

\* all(results)
AllTrue(rs) == \A i \in 1..Len(rs) : Truthy(rs[i])

\* list.remove(h): the list without the first occurrence of h
RemoveFirst(hs, h) ==
    LET i == CHOOSE j \in 1..Len(hs) :
                 hs[j] = h /\ \A k \in 1..(j - 1) : hs[k] # h
    IN  SubSeq(hs, 1, i - 1) \o SubSeq(hs, i + 1, Len(hs))

\* between two dispatches the locals of the last send() are gone
Forget ==
    /\ dpc' = "idle"
    /\ didx' = 0
    /\ results' = <<>>
    /\ calls' = <<>>
    /\ dret' = "none"
    /\ escaped' = FALSE

\* add_handler, lines 494-496 (between two dispatches)
AddHandler(h) ==
    /\ dpc \in {"idle", "done"}
    /\ Len(handlers) < MaxHandlers
    /\ handlers' = Append(handlers, h)
    /\ Forget
    /\ UNCHANGED <<upstreamVars, espVars>>

\* remove_handler, lines 498-501 (between two dispatches)
RemoveHandler(h) ==
    /\ dpc \in {"idle", "done"}
    /\ handlers' = IF \E i \in 1..Len(handlers) : handlers[i] = h
                   THEN RemoveFirst(handlers, h) ELSE handlers
    /\ Forget
    /\ UNCHANGED <<upstreamVars, espVars>>

\* send is called with an event: lines 503-505
DispatchBegin ==
    /\ dpc \in {"idle", "done"}
    /\ dpc' = "loop"
    /\ didx' = 1
    /\ results' = <<>>
    /\ calls' = <<>>
    /\ dret' = "none"
    /\ escaped' = FALSE
    /\ UNCHANGED <<handlers, upstreamVars, espVars>>

\* DispatchCall without the try/except of lines 508-513
DispatchCall_NoExcept ==
    /\ dpc = "loop"
    /\ didx <= Len(handlers)
    /\ \E o \in SinkOutcomes :
         /\ calls' = Append(calls, <<handlers[didx], o>>)
         /\ IF o = "raise"
            THEN /\ escaped' = TRUE
                 /\ dpc' = "done"
                 /\ UNCHANGED <<results, didx>>
            ELSE /\ results' = Append(results, o)
                 /\ didx' = didx + 1
                 /\ UNCHANGED <<escaped, dpc>>
    /\ UNCHANGED <<handlers, dret, upstreamVars, espVars>>

\* one pass of the loop, lines 507-513
DispatchCall ==
    /\ dpc = "loop"
    /\ didx <= Len(handlers)
    /\ \E o \in SinkOutcomes :
         /\ calls' = Append(calls, <<handlers[didx], o>>)
         /\ results' = Append(results, IF o = "raise" THEN "False" ELSE o)
    /\ didx' = didx + 1
    /\ UNCHANGED <<handlers, dpc, dret, escaped, upstreamVars, espVars>>

\* DispatchReturn with all() in the place of any()
DispatchReturn_All ==
    /\ dpc = "loop"
    /\ didx > Len(handlers)
    /\ dret' = IF AllTrue(results) THEN "True" ELSE "False"
    /\ dpc' = "done"
    /\ UNCHANGED <<handlers, didx, results, calls, escaped, upstreamVars, espVars>>

\* lines 515-516
DispatchReturn ==
    /\ dpc = "loop"
    /\ didx > Len(handlers)
    /\ dret' = IF AnyTrue(results) THEN "True" ELSE "False"
    /\ dpc' = "done"
    /\ UNCHANGED <<handlers, didx, results, calls, escaped, upstreamVars, espVars>>

NextDispatch ==
    \/ \E h \in Sinks : AddHandler(h) \/ RemoveHandler(h)
    \/ DispatchBegin
    \/ DispatchCall
    \/ DispatchReturn

SpecDispatch == Init /\ [][NextDispatch]_vars

(***************************************************************************)
(* SimpleESP32Handler (outputHandler.py 81-369): text -> command -> link.  *)
(*                                                                         *)
(* A Python str is a sequence of atoms. An atom is a TLA+ string that the  *)
(* code never looks inside: a blank, a brace, a comma, a word, or the      *)
(* source text of one JSON member ("key":value). str.strip(), the regular  *)
(* expression of line 331, json.loads, str(), lower(), int() and the       *)
(* f-string of line 191 are computed on the atoms; two strs are compared   *)
(* by their concatenation (Flat), so that a command assembled from pieces  *)
(* can equal the literal "move0".                                          *)
(***************************************************************************)
Space == " "

\* a word of prose, the sentinel as a word, and a word outside ASCII: the
\* atom "U+7A93" is the one character with that code point
Words == {"ok", "move0", "U+7A93"}

\* str.encode('ascii') succeeds on the atom
IsAscii(a) == a # "U+7A93"

\* JSON values: a string (sequence of atoms), an int, a float (n in tenths)
\* and null
JStr(s) == [type |-> "str", s |-> s, n |-> 0]
JInt(n) == [type |-> "int", s |-> <<>>, n |-> n]
JFloat(t) == [type |-> "float", s |-> <<>>, n |-> t]
JNull == [type |-> "null", s |-> <<>>, n |-> 0]

\* the member atoms and what json.loads makes of each
Members ==
    { [lex |-> "\"action\":\"Open\"",  key |-> "action", val |-> JStr(<<"Open">>)],
      [lex |-> "\"action\":\"move\"",  key |-> "action", val |-> JStr(<<"move">>)],
      [lex |-> "\"action\":\" move\"", key |-> "action",
                                       val |-> JStr(<<Space, "move">>)],
      [lex |-> "\"degree\":0",         key |-> "degree", val |-> JInt(0)],
      [lex |-> "\"degree\":20.9",      key |-> "degree", val |-> JFloat(209)],
      [lex |-> "\"degree\":null",      key |-> "degree", val |-> JNull],
      [lex |-> "\"degree\":\"abc\"",   key |-> "degree", val |-> JStr(<<"abc">>)] }

Lexemes == {m.lex : m \in Members}

MemberOf(a) == CHOOSE m \in Members : m.lex = a

\* the source text of a JSON object with the members ms
RECURSIVE Commas(_)
Commas(ms) ==
    IF Len(ms) <= 1 THEN ms ELSE <<Head(ms), ",">> \o Commas(Tail(ms))

Object(ms) == <<"{">> \o Commas(ms) \o <<"}">>

\* the JSON objects a text can hold: with and without each key, with degrees
\* that int() takes and degrees that it refuses
Objects ==
    { Object(<<>>),
      Object(<<"\"action\":\"Open\"">>),
      Object(<<"\"action\":\" move\"">>),
      Object(<<"\"degree\":20.9">>),
      Object(<<"\"degree\":null">>),
      Object(<<"\"action\":\"Open\"", "\"degree\":20.9">>),
      Object(<<"\"action\":\"Open\"", "\"degree\":0">>),
      Object(<<"\"action\":\"Open\"", "\"degree\":null">>),
      Object(<<"\"action\":\"Open\"", "\"degree\":\"abc\"">>),
      Object(<<"\"action\":\" move\"", "\"degree\":0">>),
      Object(<<"\"action\":\"move\"", "\"degree\":0">>) }

\* the pieces a text is made of
Chunks == {<<Space>>, <<"{">>, <<"}">>} \cup {<<w>> : w \in Words} \cup Objects

RECURSIVE Concat(_)
Concat(cs) == IF cs = <<>> THEN <<>> ELSE Head(cs) \o Concat(Tail(cs))

\* the texts send() is called with
Texts == {Concat(cs) : cs \in UNION {[1..n -> Chunks] : n \in 0..MaxChunks}}

\* the Python str as one string
RECURSIVE Flat(_)
Flat(s) == IF s = <<>> THEN "" ELSE Head(s) \o Flat(Tail(s))

\* str.lstrip(), str.rstrip(), str.strip()
RECURSIVE LStrip(_)
LStrip(s) ==
    IF s = <<>> THEN s ELSE IF Head(s) = Space THEN LStrip(Tail(s)) ELSE s

RECURSIVE RStrip(_)
RStrip(s) ==
    IF s = <<>> THEN s
    ELSE IF s[Len(s)] = Space THEN RStrip(SubSeq(s, 1, Len(s) - 1)) ELSE s

Strip(s) == RStrip(LStrip(s))

\* re.search(r'\{.*\}', text, re.DOTALL).group(0), line 331: from the first
\* "{" that has a "}" after it to the last "}" of the text (.* is greedy);
\* the empty sequence when there is no match
JsonMatch(text) ==
    LET open == {i \in 1..Len(text) : text[i] = "{"}
        shut == {j \in 1..Len(text) : text[j] = "}"}
    IN  IF open = {} THEN <<>>
        ELSE LET first == CHOOSE i \in open : \A k \in open : i <= k
                 after == {j \in shut : j > first}
             IN  IF after = {} THEN <<>>
                 ELSE SubSeq(text, first,
                             CHOOSE j \in after : \A k \in after : k <= j)

\* json.loads: blanks between the tokens do not count
Tokens(s) == SelectSeq(s, LAMBDA a : a # Space)

\* the tokens between the outer braces
Inner(s) == SubSeq(Tokens(s), 2, Len(Tokens(s)) - 1)

\* json.loads(s) returns (a dict) and does not raise JSONDecodeError
JsonDecodes(s) ==
    LET t == Tokens(s)
    IN  IF Len(t) < 2 THEN FALSE
        ELSE IF t[1] # "{" \/ t[Len(t)] # "}" THEN FALSE
        ELSE LET in == Inner(s)
             IN  IF in = <<>> THEN TRUE
                 ELSE /\ Len(in) % 2 = 1
                      /\ \A i \in 1..Len(in) :
                           IF i % 2 = 1 THEN in[i] \in Lexemes ELSE in[i] = ","

\* the positions of the members with the key in a decoded object
Holding(s, key) ==
    {i \in 1..Len(Inner(s)) :
        IF Inner(s)[i] \in Lexemes THEN MemberOf(Inner(s)[i]).key = key
        ELSE FALSE}

\* data.get(key, default): of a repeated key the last member counts
Get(s, key, default) ==
    IF Holding(s, key) = {} THEN default
    ELSE MemberOf(Inner(s)[CHOOSE i \in Holding(s, key) :
                              \A k \in Holding(s, key) : k <= i]).val

\* str(v)
PyStr(v) ==
    CASE v.type = "str" -> v.s
      [] v.type = "null" -> <<"None">>
      [] v.type = "int" -> <<ToString(v.n)>>
      [] v.type = "float" ->
           <<ToString(v.n \div 10) \o "." \o ToString(v.n % 10)>>

\* str.lower()
LowerAtom(a) ==
    CASE a = "Open" -> "open"
      [] a = "None" -> "none"
      [] OTHER -> a

Lower(s) == [i \in 1..Len(s) |-> LowerAtom(s[i])]

\* the strs int() reads as a decimal literal
Decimals == {ToString(i) : i \in 0..9}

\* int(v) returns: TypeError for None, ValueError for a str that is no literal
IntReturns(v) ==
    CASE v.type \in {"int", "float"} -> TRUE
      [] v.type = "null" -> FALSE
      [] v.type = "str" -> Flat(Strip(v.s)) \in Decimals

\* int(v): a float is truncated toward zero
PyInt(v) ==
    CASE v.type = "int" -> v.n
      [] v.type = "float" ->
           IF v.n >= 0 THEN v.n \div 10 ELSE 0 - ((0 - v.n) \div 10)
      [] v.type = "str" ->
           CHOOSE i \in 0..9 : ToString(i) = Flat(Strip(v.s))

\* parse_json_to_command, lines 176-205
parse_json_to_command(json_response) ==
    LET s == Strip(json_response)
    IN  IF ~JsonDecodes(s) THEN <<"move0">>
        ELSE LET action == Lower(PyStr(Get(s, "action", JStr(<<"move">>))))
                 degree == Get(s, "degree", JInt(0))
             IN  IF ~IntReturns(degree) THEN <<"move0">>
                 ELSE action \o <<ToString(PyInt(degree))>>

\* bool(s) of a str or None; None (command_to_send of line 327) is the empty
\* sequence here, and neither is told from "" by the code
Falsy(s) == Flat(s) = ""

\* command_to_send without the strip() of line 323
command_to_send_NoStrip(t) ==
    LET text == t
        json_match == JsonMatch(text)
        parsed == IF json_match # <<>>
                  THEN parse_json_to_command(json_match) ELSE <<>>
    IN  IF Falsy(parsed) \/ Flat(parsed) = "move0" THEN text ELSE parsed

\* command_to_send without the fallback of lines 344-348
command_to_send_NoFallback(t) ==
    LET text == Strip(t)
        json_match == JsonMatch(text)
    IN  IF json_match # <<>> THEN parse_json_to_command(json_match) ELSE text

\* send, lines 323-347: command_to_send after the fallback to the text
command_to_send(t) ==
    LET text == Strip(t)
        json_match == JsonMatch(text)
        parsed == IF json_match # <<>>
                  THEN parse_json_to_command(json_match) ELSE <<>>
    IN  IF Falsy(parsed) \/ Flat(parsed) = "move0" THEN text ELSE parsed

\* the test of line 355
Sendable(c) == ~Falsy(c) /\ Flat(c) # "move0"

\* the combinations of send_command's loops in their order, lines 220-223
Encodings == <<"ascii", "utf-8">>
Newlines == <<"\n", "\r\n", "\r">>
\* EncodingAt with the two loops nested the other way round
EncodingAt_NewlineMajor(k) == Encodings[((k - 1) % Len(Encodings)) + 1]
EncodingAt(k) == Encodings[((k - 1) \div Len(Newlines)) + 1]
NewlineAt(k) == Newlines[((k - 1) % Len(Newlines)) + 1]
Combinations == Len(Encodings) * Len(Newlines)

\* message.encode(encoding) returns and does not raise UnicodeEncodeError
Encodes(s, encoding) ==
    IF encoding = "ascii" THEN \A i \in 1..Len(s) : IsAscii(s[i]) ELSE TRUE

\* what one pass of send_command's loops can do on the serial handle:
\*   "ok"            reset_output_buffer, encode, write and flush returned
\*   "encode_error"  message.encode(encoding) raised UnicodeEncodeError
\*   "io_error"      reset_output_buffer or write raised: nothing written
\*   "flush_error"   write returned, then flush raised: the bytes had left
\*                   the output buffer before
\*   "flush_lost"    write returned, then flush raised: the bytes were still
\*                   in the output buffer, and the reset_output_buffer of
\*                   the next pass (line 231) discards them
AttemptOutcomes ==
    IF link = "bad" THEN {"io_error"}
    ELSE IF ~Encodes(command, EncodingAt(attempt))
    THEN (IF link = "flaky" THEN {"io_error", "encode_error"}
          ELSE {"encode_error"})
    ELSE (IF link = "flaky"
          THEN {"ok", "io_error", "flush_error", "flush_lost"} ELSE {"ok"})

\* send() or send_command() returns v
ESPReturn(v) ==
    /\ esp_ret' = v
    /\ esp_pc' = "done"

\* the head of send_command, lines 207-217, called with the command c
EnterSendCommand(before, c) ==
    /\ sc_calls' = Append(before, c)
    /\ tried' = <<>>
    /\ IF ~is_connected
       THEN /\ ESPReturn("False")
            /\ UNCHANGED <<command, attempt>>
       ELSE /\ command' = Strip(c)
            /\ attempt' = 1
            /\ esp_pc' = "attempt"
            /\ esp_ret' = "none"

\* ESPSend with the test of line 355 reduced to `if command_to_send:`
ESPSend_NoSentinelTest ==
    /\ esp_pc = "idle"
    /\ LET c == command_to_send(esp_text)
       IN  IF Falsy(c)
           THEN /\ ESPReturn("False")
                /\ UNCHANGED <<sc_calls, command, attempt, tried>>
           ELSE EnterSendCommand(sc_calls, c)
    /\ UNCHANGED <<esp_text, wire, is_connected, link, port, close_raised,
                   cleaned, esp_call, esp_calls, upstreamVars, dispatchVars>>

\* send, lines 318-359, up to its call of send_command
ESPSend ==
    /\ esp_pc = "idle"
    /\ LET c == command_to_send(esp_text)
       IN  IF ~Sendable(c)
           THEN /\ ESPReturn("False")
                /\ UNCHANGED <<sc_calls, command, attempt, tried>>
           ELSE EnterSendCommand(sc_calls, c)
    /\ UNCHANGED <<esp_text, wire, is_connected, link, port, close_raised,
                   cleaned, esp_call, esp_calls, upstreamVars, dispatchVars>>

\* SendAttempt without the except clauses of lines 243-250 and 256-258: an
\* error of the serial handle leaves send_command
SendAttempt_NoExcept ==
    /\ esp_pc = "attempt"
    /\ \E o \in AttemptOutcomes :
         /\ tried' = Append(tried, [encoding |-> EncodingAt(attempt),
                                    newline |-> NewlineAt(attempt),
                                    outcome |-> o])
         /\ wire' = IF o \in {"ok", "flush_error"}
                    THEN Append(wire, [line |-> Flat(command) \o NewlineAt(attempt),
                                       encoding |-> EncodingAt(attempt)])
                    ELSE wire
         /\ IF o = "ok"
            THEN /\ ESPReturn("True")
                 /\ UNCHANGED attempt
            ELSE IF o \in {"io_error", "flush_error", "flush_lost"}
            THEN /\ ESPReturn("raised")
                 /\ UNCHANGED attempt
            ELSE IF attempt < Combinations
            THEN /\ attempt' = attempt + 1
                 /\ UNCHANGED <<esp_pc, esp_ret>>
            ELSE /\ ESPReturn("False")
                 /\ UNCHANGED attempt
    /\ UNCHANGED <<esp_text, sc_calls, command, is_connected, link, port,
                   close_raised, cleaned, esp_call, esp_calls, upstreamVars,
                   dispatchVars>>

\* one pass of send_command's loops, lines 221-251, and the return of lines
\* 241 and 253-254
SendAttempt ==
    /\ esp_pc = "attempt"
    /\ \E o \in AttemptOutcomes :
         /\ tried' = Append(tried, [encoding |-> EncodingAt(attempt),
                                    newline |-> NewlineAt(attempt),
                                    outcome |-> o])
         /\ wire' = IF o \in {"ok", "flush_error"}
                    THEN Append(wire, [line |-> Flat(command) \o NewlineAt(attempt),
                                       encoding |-> EncodingAt(attempt)])
                    ELSE wire
         /\ IF o = "ok"
            THEN /\ ESPReturn("True")
                 /\ UNCHANGED attempt
            ELSE IF attempt < Combinations
            THEN /\ attempt' = attempt + 1
                 /\ UNCHANGED <<esp_pc, esp_ret>>
            ELSE /\ ESPReturn("False")
                 /\ UNCHANGED attempt
    /\ UNCHANGED <<esp_text, sc_calls, command, is_connected, link, port,
                   close_raised, cleaned, esp_call, esp_calls, upstreamVars,
                   dispatchVars>>

\* ESPCleanup that leaves is_connected as it is
ESPCleanup_StaysConnected ==
    /\ esp_pc \in {"wait", "idle", "done"}
    /\ IF port = "open"
       THEN \E raised \in BOOLEAN :
              /\ close_raised' = raised
              /\ port' = IF raised THEN "open" ELSE "closed"
       ELSE UNCHANGED <<port, close_raised>>
    /\ cleaned' = TRUE
    /\ UNCHANGED <<esp_text, esp_pc, sc_calls, command, attempt, wire, esp_ret,
                   is_connected, link, tried, esp_call, esp_calls,
                   upstreamVars, dispatchVars>>

\* cleanup, lines 361-369: close() is called on an open handle, and what it
\* raises is dropped (a close() that raised leaves the handle as it was)
ESPCleanup ==
    /\ esp_pc \in {"wait", "idle", "done"}
    /\ IF port = "open"
       THEN \E raised \in BOOLEAN :
              /\ close_raised' = raised
              /\ port' = IF raised THEN "open" ELSE "closed"
       ELSE UNCHANGED <<port, close_raised>>
    /\ is_connected' = FALSE
    /\ cleaned' = TRUE
    /\ UNCHANGED <<esp_text, esp_pc, sc_calls, command, attempt, wire, esp_ret,
                   link, tried, esp_call, esp_calls, upstreamVars, dispatchVars>>

NextESP ==
    \/ ESPSend
    \/ SendAttempt
    \/ ESPCleanup

\* one text arrives at a connected handler
InitESP ==
    /\ InitEngine
    /\ InitDispatch
    /\ InitTransport
    /\ InitManager
    /\ InitRemote
    /\ esp_pc = "idle"
    /\ cpc = [c \in Controllers |-> IF c = Main THEN "idle" ELSE "off"]
    /\ esp_text \in Texts
    /\ link \in {"good", "bad"}

SpecESP == InitESP /\ [][NextESP]_vars

\* the texts and commands the callers of the transport use
LinkTexts == {<<"ok">>, <<"U+7A93">>, <<"move0">>}
LinkCommands == {<<"ok">>, <<"U+7A93">>}

\* a caller calls send(t)
CallSend(t) ==
    /\ esp_pc \in {"wait", "done"}
    /\ esp_calls < MaxCalls
    /\ esp_calls' = esp_calls + 1
    /\ esp_call' = "send"
    /\ esp_text' = t
    /\ esp_pc' = "idle"
    /\ esp_ret' = "none"
    /\ sc_calls' = <<>>
    /\ tried' = <<>>
    /\ wire' = <<>>
    /\ command' = <<>>
    /\ attempt' = 0
    /\ UNCHANGED <<is_connected, link, port, close_raised, cleaned,
                   upstreamVars, dispatchVars>>

\* a caller calls send_command(c), as test_manual_command (line 289) does
CallSendCommand(c) ==
    /\ esp_pc \in {"wait", "done"}
    /\ esp_calls < MaxCalls
    /\ esp_calls' = esp_calls + 1
    /\ esp_call' = "send_command"
    /\ esp_text' = <<>>
    /\ wire' = <<>>
    /\ EnterSendCommand(<<>>, c)
    /\ UNCHANGED <<is_connected, link, port, close_raised, cleaned,
                   upstreamVars, dispatchVars>>

NextLink ==
    \/ \E t \in LinkTexts : CallSend(t)
    \/ \E c \in LinkCommands : CallSendCommand(c)
    \/ ESPSend
    \/ SendAttempt
    \/ ESPCleanup

\* a connected handler, and a serial device that works, fails, or does either
InitLink ==
    /\ InitEngine
    /\ InitDispatch
    /\ InitTransport
    /\ InitManager
    /\ InitRemote
    /\ esp_pc = "wait"
    /\ cpc = [c \in Controllers |-> IF c = Main THEN "idle" ELSE "off"]
    /\ esp_text = <<>>
    /\ link \in {"good", "bad", "flaky"}

SpecLink == InitLink /\ [][NextLink]_vars

(***************************************************************************)
(* STTOutputManager (outputHandler.py 518-604): one MultiOutputHandler per *)
(* event kind. A sink made by an add_* method is known by its position in  *)
(* `made`.                                                                 *)
(***************************************************************************)
\* the event kinds, which are the values of metadata['type'] as well
Kinds == {"partial", "final", "complete"}

\* the values of the argument `target`; "other" is any other string
Targets == Kinds \cup {"all", "other"}

\* RegisterByTarget with the branch of 'all' adding to the final list only
RegisterByTarget_AllIsFinal(s, target) ==
    /\ partial_handler' = IF target = "partial"
                          THEN Append(partial_handler, s) ELSE partial_handler
    /\ final_handler' = IF target \in {"final", "all"}
                        THEN Append(final_handler, s) ELSE final_handler
    /\ complete_handler' = IF target = "complete"
                           THEN Append(complete_handler, s) ELSE complete_handler

\* add_partial_handler, add_final_handler, add_complete_handler (lines
\* 532-542) as the if/elif chain of lines 548-557 and 568-577 calls them
RegisterByTarget(s, target) ==
    /\ partial_handler' = IF target \in {"partial", "all"}
                          THEN Append(partial_handler, s) ELSE partial_handler
    /\ final_handler' = IF target \in {"final", "all"}
                        THEN Append(final_handler, s) ELSE final_handler
    /\ complete_handler' = IF target \in {"complete", "all"}
                           THEN Append(complete_handler, s) ELSE complete_handler

\* a sink is made and registered
Make(via, target) ==
    /\ Len(made) < MaxAdds
    /\ made' = Append(made, [via |-> via, target |-> target])
    /\ event' = "none"
    /\ delivered' = <<>>
    /\ served' = 0
    /\ UNCHANGED <<engineSide, dispatchVars, espVars, apiVars>>

\* add_file_handler, lines 544-557
AddFileHandler(target) ==
    /\ Make("file", target)
    /\ RegisterByTarget(Len(made) + 1, target)

\* add_openai_handler, lines 559-577
AddOpenAIHandler(target) ==
    /\ Make("openai", target)
    /\ RegisterByTarget(Len(made) + 1, target)

\* add_simple_esp32_handler, lines 579-592: the handler is registered when
\* its constructor connected, and for the targets 'final' and 'complete' only
AddSimpleESP32Handler(target, connected) ==
    /\ Make("esp32", target)
    /\ IF connected /\ target \in {"final", "complete"}
       THEN RegisterByTarget(Len(made) + 1, target)
       ELSE UNCHANGED <<partial_handler, final_handler, complete_handler>>

\* MultiOutputHandler.send(text, {'type': type}) on the list hs, lines
\* 503-516: one send() call per entry, in order, whatever a sink returns or
\* raises (DispatchCall)
Fanout(hs, type) == [i \in 1..Len(hs) |-> [sink |-> hs[i], type |-> type]]

\* a handle_* method is called with an event
Handle(kind, hs, type) ==
    /\ event' = kind
    /\ delivered' = Fanout(hs, type)
    /\ served' = 0
    /\ UNCHANGED <<partial_handler, final_handler, complete_handler, made,
                   engineSide, dispatchVars, espVars, apiVars>>

\* handle_partial_result, lines 594-596
HandlePartialResult == Handle("partial", partial_handler, "partial")

\* handle_final_result, lines 598-600
HandleFinalResult == Handle("final", final_handler, "final")

\* handle_complete_result, lines 602-604
HandleCompleteResult == Handle("complete", complete_handler, "complete")

NextManager ==
    \/ \E t \in Targets :
         \/ AddFileHandler(t)
         \/ AddOpenAIHandler(t)
         \/ \E connected \in BOOLEAN : AddSimpleESP32Handler(t, connected)
    \/ HandlePartialResult
    \/ HandleFinalResult
    \/ HandleCompleteResult

SpecManager == Init /\ [][NextManager]_vars

(***************************************************************************)
(* OpenAIAPIHandler (outputHandler.py 374-486): one send() with its retry  *)
(* loop; on HTTP 200 the reply is forwarded to SimpleESP32Handler.send,    *)
(* whose actions (ESPSend, SendAttempt) then run inside this call.         *)
(***************************************************************************)
\* what one self.session.post(...) and the reading of its response can do:
\*   "200"             status 200, a body with choices[0].message.content
\*   "200_not_json"    status 200, response.json() raises JSONDecodeError
\*   "200_no_choices"  status 200, a JSON body without the keys of lines
\*                     440-441 (KeyError, IndexError or TypeError)
\*   "401", "429"      these statuses
\*   "500"             any other status
\*   "Timeout", "RequestException"   session.post raises it
HttpOutcomes == {"200", "200_not_json", "200_no_choices", "401", "429", "500",
                 "Timeout", "RequestException"}

\* the outcomes after which the loop goes on: the status branches of lines
\* 458-469 and the except clauses of lines 471-478
Retried == {"200_not_json", "429", "500", "Timeout", "RequestException"}

\* the replies (choices[0].message.content) a 200 can carry: a command
\* object, prose, the sentinel, an object without degree, nothing
Replies ==
    { Object(<<"\"action\":\"Open\"", "\"degree\":20.9">>),
      <<"ok">>,
      <<"move0">>,
      Object(<<"\"action\":\"Open\"">>),
      <<>> }

\* range(self.retry_count) with one more pass
InRange_OneMore(a) == a <= retry_count

\* `for attempt in range(self.retry_count)`, line 430: attempt a is made
InRange(a) == a < retry_count

\* no status ends the loop with False
Fatal_None(r) == FALSE

\* the status of line 454, after which send returns False at once
Fatal(r) == r = "401"

\* the wait doubling from two seconds
WaitTime_FromTwo(a) == 2 * (a + 1)

\* wait_time = 2 ** attempt, line 482
WaitTime(a) == 2 ^ a

\* send returns v or, with "raised", an exception leaves it
ApiReturn(v) ==
    /\ api_ret' = v
    /\ api_pc' = "done"

\* send is called: the payload of lines 405-427
ApiSend ==
    /\ api_pc = "idle"
    /\ api_pc' = "loop"
    /\ api_attempt' = 0
    /\ UNCHANGED <<retry_count, esp32_handler, responses, sleeps, forwarded,
                   api_ret, engineSide, dispatchVars, managerVars, espVars>>

\* one pass of the loop, lines 430-483
ApiAttempt ==
    /\ api_pc = "loop"
    /\ InRange(api_attempt)
    /\ \E r \in HttpOutcomes :
         /\ responses' = Append(responses, r)
         /\ IF r = "200"
            THEN /\ IF esp32_handler
                    THEN \E reply \in Replies :
                           /\ forwarded' = Append(forwarded, reply)
                           /\ esp_text' = reply
                           /\ esp_pc' = "idle"
                           /\ api_pc' = "forward"
                           /\ UNCHANGED api_ret
                    ELSE /\ ApiReturn("True")
                         /\ UNCHANGED <<forwarded, esp_text, esp_pc>>
                 /\ UNCHANGED <<api_attempt, sleeps>>
            ELSE /\ IF r = "200_no_choices"
                    THEN /\ ApiReturn("raised")
                         /\ UNCHANGED <<api_attempt, sleeps>>
                    ELSE IF Fatal(r)
                    THEN /\ ApiReturn("False")
                         /\ UNCHANGED <<api_attempt, sleeps>>
                    ELSE /\ api_attempt' = api_attempt + 1
                         /\ sleeps' = IF api_attempt < retry_count - 1
                                      THEN Append(sleeps, WaitTime(api_attempt))
                                      ELSE sleeps
                         /\ UNCHANGED <<api_pc, api_ret>>
                 /\ UNCHANGED <<forwarded, esp_text, esp_pc>>
    /\ UNCHANGED <<retry_count, esp32_handler, sc_calls, command, attempt, wire,
                   esp_ret, is_connected, link, tried, port, close_raised,
                   cleaned, esp_call, esp_calls, engineSide, dispatchVars,
                   managerVars>>

\* esp32_handler.send(ai_response) has returned: lines 446-452
ApiForwarded ==
    /\ api_pc = "forward"
    /\ esp_pc = "done"
    /\ ApiReturn(IF esp_ret = "raised" THEN "raised" ELSE "True")
    /\ UNCHANGED <<retry_count, esp32_handler, api_attempt, responses, sleeps,
                   forwarded, engineSide, dispatchVars, managerVars, espVars>>

\* the loop is over: lines 485-486
ApiExhausted ==
    /\ api_pc = "loop"
    /\ ~InRange(api_attempt)
    /\ ApiReturn("False")
    /\ UNCHANGED <<retry_count, esp32_handler, api_attempt, responses, sleeps,
                   forwarded, engineSide, dispatchVars, managerVars, espVars>>

NextApi ==
    \/ ApiSend
    \/ ApiAttempt
    \/ ApiForwarded
    \/ ApiExhausted
    \/ ESPSend
    \/ SendAttempt

\* an OpenAIAPIHandler with or without an actuator handler, whose serial
\* device works or not
InitApi ==
    /\ InitEngine
    /\ InitDispatch
    /\ InitTransport
    /\ InitManager
    /\ cpc = [c \in Controllers |-> IF c = Main THEN "idle" ELSE "off"]
    /\ esp_text = <<>>
    /\ esp_pc = "wait"
    /\ link \in {"good", "bad"}
    /\ retry_count \in 0..MaxRetryCount
    /\ esp32_handler \in BOOLEAN
    /\ api_pc = "idle"
    /\ api_attempt = 0
    /\ responses = <<>>
    /\ sleeps = <<>>
    /\ forwarded = <<>>
    /\ api_ret = "none"

SpecApi == InitApi /\ [][NextApi]_vars

(***************************************************************************)
(* The output side as main.py wires it: _setup_output_handlers (main.py    *)
(* 35-83) registers a file sink and an OpenAIAPIHandler that holds the     *)
(* SimpleESP32Handler; the engine's callbacks are the handle_* methods.    *)
(* One OpenAIAPIHandler.send and one SimpleESP32Handler.send are followed. *)
(***************************************************************************)
\* the recognised text of an event
EventText == <<"ok">>

\* main.py 56-63: add_file_handler, before any event
SetupFile(target) ==
    /\ event = "none"
    /\ made = <<>>
    /\ AddFileHandler(target)

\* SetupOpenAI with the actuator handler registered as a sink of its own,
\* through add_simple_esp32_handler
SetupOpenAI_Direct(target) ==
    /\ event = "none"
    /\ \A i \in 1..Len(made) : made[i].via \notin {"openai", "esp32"}
    /\ AddSimpleESP32Handler(target, TRUE)

\* main.py 65-81: add_openai_handler with esp32_handler=esp32_handler,
\* before any event
SetupOpenAI(target) ==
    /\ event = "none"
    /\ \A i \in 1..Len(made) : made[i].via \notin {"openai", "esp32"}
    /\ AddOpenAIHandler(target)

\* every sink of the last event has been called and has returned
SinksIdle ==
    /\ served = Len(delivered)
    /\ api_pc \in {"idle", "done"}
    /\ esp_pc \in {"wait", "done"}

\* the capture thread calls a result callback (main.py 93-95)
EventArrives ==
    /\ SinksIdle
    /\ \/ HandlePartialResult
       \/ HandleFinalResult
       \/ HandleCompleteResult

\* how the sink of a delivery was made
ViaOf(d) == IF d.sink = Console THEN "console" ELSE made[d.sink].via

\* MultiOutputHandler.send calls send(text, metadata) of the next sink
\* (outputHandler.py 507-510): OpenAIAPIHandler.send begins (ApiSend),
\* SimpleESP32Handler.send begins, or a console or file sink writes. The
\* first send of either handler is followed, later ones are not.
SinkSend ==
    /\ served < Len(delivered)
    /\ api_pc \in {"idle", "done"}
    /\ esp_pc \in {"wait", "done"}
    /\ served' = served + 1
    /\ LET via == ViaOf(delivered[served + 1])
       IN  IF via = "openai" /\ api_pc = "idle"
           THEN /\ api_pc' = "loop"
                /\ api_attempt' = 0
                /\ UNCHANGED <<esp_text, esp_pc>>
           ELSE IF via = "esp32" /\ esp_pc = "wait"
           THEN /\ esp_text' = EventText
                /\ esp_pc' = "idle"
                /\ UNCHANGED <<api_pc, api_attempt>>
           ELSE UNCHANGED <<api_pc, api_attempt, esp_text, esp_pc>>
    /\ UNCHANGED <<partial_handler, final_handler, complete_handler, made,
                   event, delivered>>
    /\ UNCHANGED <<retry_count, esp32_handler, responses, sleeps, forwarded,
                   api_ret>>
    /\ UNCHANGED <<sc_calls, command, attempt, wire, esp_ret, is_connected,
                   link, tried, port, close_raised, cleaned, esp_call,
                   esp_calls, engineSide, dispatchVars>>

NextWired ==
    \/ \E t \in Targets : SetupFile(t) \/ SetupOpenAI(t)
    \/ EventArrives
    \/ SinkSend
    \/ ApiAttempt
    \/ ApiForwarded
    \/ ApiExhausted
    \/ ESPSend
    \/ SendAttempt

\* main.py 38-47: the OpenAIAPIHandler gets a connected SimpleESP32Handler
\* or None
InitWired ==
    /\ InitEngine
    /\ InitDispatch
    /\ InitTransport
    /\ InitManager
    /\ cpc = [c \in Controllers |-> IF c = Main THEN "idle" ELSE "off"]
    /\ esp_text = <<>>
    /\ esp_pc = "wait"
    /\ link \in {"good", "bad"}
    /\ retry_count = MaxRetryCount
    /\ esp32_handler \in BOOLEAN
    /\ api_pc = "idle"
    /\ api_attempt = 0
    /\ responses = <<>>
    /\ sleeps = <<>>
    /\ forwarded = <<>>
    /\ api_ret = "none"

SpecWired == InitWired /\ [][NextWired]_vars

(***************************************************************************)
(* Properties of the engine.                                               *)
(***************************************************************************)
\* capture threads that are alive
Capturing == {e \in Episodes : ThreadAlive(e)}

\* watchdog timers that are waiting for their interval
Armed == {t \in Episodes : tmr[t] = "armed"}

\* no public method of the engine is in progress
Quiescent == \A c \in Controllers : cpc[c] \in {"idle", "off"}

\* C1: at most one capture thread (_audio_processing_loop) is alive at any
\* time, whatever sequence of start_listening, stop_listening, cleanup and
\* watchdog firings led there, a timed-out join included.
AtMostOneCaptureThread == Cardinality(Capturing) <= 1

\* C2: (between calls of the public methods) is_listening is true if and
\* only if a capture thread is running and, when an auto-stop duration is
\* configured, exactly one watchdog timer is armed.
ListeningIffCapturing ==
    Quiescent =>
        (is_listening <=> (/\ Capturing # {}
                           /\ auto_stop_duration # None => Cardinality(Armed) = 1))

\* C3: Closed is terminal: once cleanup() has run to its end (it has emitted
\* "cleaned_up"), the engine is never Listening again.
ClosedIsTerminal == emitted["cleaned_up"] > 0 => ~is_listening

\* C6: stop_listening is idempotent. "listening_stopped" is emitted at most
\* once per episode: the emissions never outnumber the episodes begun, not
\* counting the one still listening; and a stop_listening that finds the
\* engine not listening returns at once and changes no engine field, no
\* thread, no timer and emits nothing (no status, no final-result flush).
StopOncePerEpisode ==
    emitted["listening_stopped"] + (IF is_listening THEN 1 ELSE 0) <= episodes

StopWhenNotListeningIsNoOp ==
    \A c \in Controllers :
        (cpc[c] = "p_block" /\ ~is_listening /\ cpc'[c] # "p_block")
            => /\ cpc'[c] = "idle"
               /\ UNCHANGED <<engineVars, threadVars, obsVars>>

StopIdempotent == []StopOncePerEpisode /\ [][StopWhenNotListeningIsNoOp]_vars

\* a second stop_listening returned without doing anything after a first one
\* emitted "listening_stopped", and another thread is inside stop_listening
StopIdempotentWitness ==
    /\ emitted["listening_stopped"] >= 1
    /\ ret[Main] = "noop"
    /\ ~is_listening
    /\ \E c \in Controllers \ {Main} : cpc[c] = "p_block"

\* C7: with no cleanup() in between, a stop_listening that ran to its end
\* leaves the engine Ready (not listening, still initialized, stream and
\* audio interface not released), and the next start_listening gets past
\* its test and begins a new episode.
StopLeavesReady ==
    \A c \in Controllers :
        /\ (cpc[c] = "p_emit" /\ cpc'[c] = "idle" /\ cleanups = 0)
              => /\ ~is_listening'
                 /\ is_initialized'
                 /\ stream' = "stopped"
                 /\ audio_interface' = "open"
        /\ (cpc[c] = "s_block" /\ cpc'[c] # "s_block" /\ ~is_listening
                /\ cleanups = 0)
              => /\ is_listening'
                 /\ cpc'[c] = "s_spawn"
                 /\ episodes' = episodes + 1

StartThenStopLeavesReady == [][StopLeavesReady]_vars

\* stop_listening has returned after a start_listening, and a further
\* start_listening has begun the second episode
StartThenStopWitness ==
    /\ emitted["listening_stopped"] = 1
    /\ cleanups = 0
    /\ episodes = 2
    /\ cpc[Main] = "s_spawn"

\* C8: start_listening while the engine is listening is a no-op: it returns
\* at once; no thread is spawned, no watchdog armed, the recognizer is not
\* replaced, the stop event is not cleared and nothing is emitted.
StartWhenListeningIsNoOp ==
    \A c \in Controllers :
        (cpc[c] = "s_block" /\ is_listening /\ cpc'[c] # "s_block")
            => /\ cpc'[c] = "idle"
               /\ UNCHANGED <<engineVars, threadVars, obsVars>>

StartIsNoOpWhenListening == [][StartWhenListeningIsNoOp]_vars

\* start_listening has returned without doing anything: the engine was, and
\* still is, listening, with its capture thread running
StartIsNoOpWitness ==
    /\ cpc[Main] = "idle"
    /\ ret[Main] = "noop"
    /\ is_listening
    /\ Capturing # {}

(***************************************************************************)
(* Properties of SimpleESP32Handler.                                       *)
(***************************************************************************)
\* what parse_json_to_command returned for the span of the text, and the
\* empty sequence when the text has no span
Parsed ==
    IF JsonMatch(Strip(esp_text)) = <<>> THEN <<>>
    ELSE parse_json_to_command(JsonMatch(Strip(esp_text)))

\* C4: for every text received by SimpleESP32Handler.send, send_command is
\* never called with the sentinel "move0" as its command
SentinelNeverHandedToSendCommand ==
    \A i \in 1..Len(sc_calls) : Flat(sc_calls[i]) # "move0"

\* C4 happens: the translation of the text's span gave the sentinel, and
\* send_command has been called for that text all the same
SentinelFilteredWitness ==
    /\ esp_pc = "done"
    /\ Flat(Parsed) = "move0"
    /\ sc_calls # <<>>

\* the span of the text decodes as a JSON object that has no action, no
\* degree, or a degree that int() refuses
Defective ==
    LET span == JsonMatch(Strip(esp_text))
    IN  IF span = <<>> THEN FALSE
        ELSE IF ~JsonDecodes(span) THEN FALSE
        ELSE \/ Holding(span, "action") = {}
             \/ Holding(span, "degree") = {}
             \/ ~IntReturns(Get(span, "degree", JInt(0)))

\* C5: when the JSON object extracted from the text has no action, no degree
\* or a value that cannot be parsed, the resulting command is the sentinel
\* and nothing is transmitted to the actuator for that text
DefectiveObjectIsNeverTransmitted ==
    (esp_pc = "done" /\ Defective) =>
        /\ Flat(Parsed) = "move0"
        /\ sc_calls = <<>>
        /\ wire = <<>>

\* the positions of the braces of a text
Braces(t) == {i \in 1..Len(t) : t[i] \in {"{", "}"}}

\* the text holds one JSON object with a string action and a numeric degree,
\* and no brace outside it: the object alone or wrapped in prose
IsWrappedCommand(t) ==
    \E i, j \in 1..Len(t) :
        /\ i < j
        /\ t[i] = "{"
        /\ t[j] = "}"
        /\ Braces(t) = {i, j}
        /\ JsonDecodes(SubSeq(t, i, j))
        /\ Holding(SubSeq(t, i, j), "action") # {}
        /\ Holding(SubSeq(t, i, j), "degree") # {}
        /\ Get(SubSeq(t, i, j), "action", JNull).type = "str"
        /\ Get(SubSeq(t, i, j), "degree", JNull).type \in {"int", "float"}

\* the one object of such a text
TheObject(t) ==
    SubSeq(t, CHOOSE i \in 1..Len(t) : t[i] = "{",
              CHOOSE j \in 1..Len(t) : t[j] = "}")

\* lower(action) followed by the degree truncated to an integer
Canonical(t) ==
    Flat(Lower(Get(TheObject(t), "action", JNull).s))
        \o ToString(PyInt(Get(TheObject(t), "degree", JNull)))

\* C16: for every text that holds exactly one balanced JSON object with a
\* string action and a numeric degree, alone or wrapped in prose, the
\* command handed to send_command is lower(action) followed by the degree
\* truncated to an integer
WrappedCommandIsCanonical ==
    (esp_pc = "done" /\ IsWrappedCommand(Strip(esp_text))) =>
        /\ Len(sc_calls) = 1
        /\ Flat(sc_calls[1]) = Canonical(Strip(esp_text))

\* no part of the text from a "{" to a "}" decodes as a JSON object
HasNoJsonObject(t) ==
    \A i, j \in 1..Len(t) :
        (i < j /\ t[i] = "{" /\ t[j] = "}") => ~JsonDecodes(SubSeq(t, i, j))

\* C17 as stated: for every text that contains no JSON object, the command
\* handed to send_command is the text without its leading and trailing
\* whitespace
PlainTextIsHandedTrimmed ==
    (esp_pc = "done" /\ HasNoJsonObject(esp_text)) =>
        sc_calls = <<Strip(esp_text)>>

\* C17 amended: for every text that contains no JSON object the command is
\* the trimmed text, and it is handed to send_command unless it is empty or
\* the sentinel "move0", in which case send_command is not called
PlainTextIsTrimmedOrDropped ==
    (esp_pc = "done" /\ HasNoJsonObject(esp_text)) =>
        /\ command_to_send(esp_text) = Strip(esp_text)
        /\ sc_calls = IF Flat(Strip(esp_text)) \in {"", "move0"}
                      THEN <<>> ELSE <<Strip(esp_text)>>

\* a word between blanks was handed over without the blanks
PlainTextWitness ==
    /\ esp_pc = "done"
    /\ esp_text = <<Space, "ok", Space>>
    /\ sc_calls = <<<<"ok">>>>
    /\ wire # <<>>

(***************************************************************************)
(* Properties of STTOutputManager.                                         *)
(***************************************************************************)
\* the number of send() calls the last event made on sink s
Deliveries(s) == Cardinality({i \in 1..Len(delivered) : delivered[i].sink = s})

\* C11: an event is delivered exactly once to every sink that
\* add_file_handler or add_openai_handler registered with the target of its
\* kind or with 'all', and to no sink they registered for another kind
\* only; the console sink, registered for every kind, gets it once; and
\* every delivery carries the event's kind as metadata type.
EventReachesMatchingSinks ==
    event # "none" =>
        /\ \A s \in 1..Len(made) :
              made[s].via \in {"file", "openai"} =>
                  Deliveries(s) = IF made[s].target \in {event, "all"}
                                  THEN 1 ELSE 0
        /\ Deliveries(Console) = 1
        /\ \A i \in 1..Len(delivered) : delivered[i].type = event

\* a final event with one sink registered for 'all' and one for 'partial'
\* only: the first received it, the second did not
EventReachesMatchingSinksWitness ==
    /\ event = "final"
    /\ Len(made) = 2
    /\ made[1] = [via |-> "file", target |-> "all"]
    /\ made[2] = [via |-> "openai", target |-> "partial"]
    /\ Deliveries(1) = 1
    /\ Deliveries(2) = 0

(***************************************************************************)
(* Properties of OpenAIAPIHandler.send.                                    *)
(***************************************************************************)
\* the failures the retry loop goes on after, as the spec lists them
Transient == {"Timeout", "RequestException", "429", "500"}

\* C12: send never makes more than retry_count HTTP attempts, and when every
\* attempt ended in a timeout, a request exception, HTTP 429 or another
\* non-200, non-401 status it has made exactly retry_count attempts and
\* returns False.
AttemptsAreBounded ==
    /\ Len(responses) <= retry_count
    /\ (api_pc = "done" /\ \A i \in 1..Len(responses) : responses[i] \in Transient)
          => /\ Len(responses) = retry_count
             /\ api_ret = "False"

\* three attempts of three failure kinds, and the result False
AttemptsAreBoundedWitness ==
    /\ api_pc = "done"
    /\ retry_count = 3
    /\ responses = <<"429", "Timeout", "500">>
    /\ api_ret = "False"

\* C13: an HTTP 401 ends send at once with False: it is the last attempt,
\* no sleep follows it (the sleeps are those between the attempts before
\* it) and nothing is forwarded to the actuator.
UnauthorizedIsFatal ==
    \A i \in 1..Len(responses) :
        responses[i] = "401" =>
            /\ i = Len(responses)
            /\ api_pc = "done"
            /\ api_ret = "False"
            /\ Len(sleeps) = i - 1
            /\ forwarded = <<>>
            /\ wire = <<>>

\* a 401 on the second attempt, after one sleep
UnauthorizedIsFatalWitness ==
    /\ responses = <<"429", "401">>
    /\ retry_count = 3
    /\ sleeps = <<1>>
    /\ api_ret = "False"

\* the attempts that failed and were not fatal
Failed == {i \in 1..Len(responses) : responses[i] \in Retried}

\* C14: the sleep after failed attempt a (counted from 0) is 2^a seconds,
\* whatever the failure was; there is one sleep after every failed attempt
\* but the last of the retry_count attempts.
BackoffDoubles ==
    /\ \A i \in 1..Len(sleeps) : sleeps[i] = 2 ^ (i - 1)
    /\ Len(sleeps) = Cardinality({i \in Failed : i < retry_count})

\* three failed attempts of different kinds: sleeps of 1 s and 2 s, and
\* none after the last
BackoffDoublesWitness ==
    /\ api_pc = "done"
    /\ responses = <<"Timeout", "429", "RequestException">>
    /\ sleeps = <<1, 2>>

\* C15: when an attempt received HTTP 200, send returns True
OkResponseReturnsTrue ==
    (api_pc = "done" /\ \E i \in 1..Len(responses) :
                           responses[i] \in {"200", "200_not_json", "200_no_choices"})
        => api_ret = "True"

(***************************************************************************)
(* Properties of MultiOutputHandler.send.                                  *)
(***************************************************************************)
\* the sinks called so far by the dispatch in progress, in call order
Called == [i \in 1..Len(calls) |-> calls[i][1]]

\* C9: dispatch calls send() on every registered sink exactly once per
\* event, in registration order, whatever the earlier sinks did (raised,
\* returned false), and no sink exception leaves dispatch.
DispatchCallsEverySink ==
    /\ ~escaped
    /\ dpc = "loop" => Called = SubSeq(handlers, 1, didx - 1)
    /\ dpc = "done" => Called = handlers

\* a dispatch has returned in which the first sink raised, the second
\* returned false and a third was still called
DispatchCallsEverySinkWitness ==
    /\ dpc = "done"
    /\ Len(calls) = 3
    /\ calls[1][2] = "raise"
    /\ calls[2][2] = "False"
    /\ calls[3][2] = "True"

\* C10: dispatch returns true if and only if at least one sink's send()
\* returned a true value; a sink that raised counts as failed; with no sink
\* or with every sink failing the result is false.
DispatchTrueIffSomeSinkTrue ==
    dpc = "done" =>
        /\ dret \in {"True", "False"}
        /\ dret = "True" <=> \E i \in 1..Len(calls) : calls[i][2] = "True"

\* a dispatch has returned true although one sink raised and one returned
\* None
DispatchTrueWitness ==
    /\ dpc = "done"
    /\ dret = "True"
    /\ \E i \in 1..Len(calls) : calls[i][2] = "raise"
    /\ \E i \in 1..Len(calls) : calls[i][2] = "None"

\* ------------------------------------------------------------------------
\* Properties of SimpleESP32Handler.send_command and cleanup.

\* the order of send_command's loops, written out
CombinationOrder ==
    << <<"ascii", "\n">>, <<"ascii", "\r\n">>, <<"ascii", "\r">>,
       <<"utf-8", "\n">>, <<"utf-8", "\r\n">>, <<"utf-8", "\r">> >>

\* the passes made so far are the first ones of the fixed order, and no pass
\* follows one that wrote and flushed without error
TriedInOrder ==
    /\ Len(tried) <= Len(CombinationOrder)
    /\ \A i \in 1..Len(tried) :
         /\ tried[i].encoding = CombinationOrder[i][1]
         /\ tried[i].newline = CombinationOrder[i][2]
         /\ (tried[i].outcome = "ok") => i = Len(tried)

\* send_command was called and has returned
SendCommandReturned == esp_pc = "done" /\ sc_calls # <<>>

\* every combination was tried and none wrote and flushed without error
AllCombinationsFailed ==
    /\ Len(tried) = Len(CombinationOrder)
    /\ \A i \in 1..Len(tried) : tried[i].outcome # "ok"

\* C18 as stated: send_command tries the encodings (ascii, utf-8) and line
\* terminators (\n, \r\n, \r) in that fixed order, returns true at the first
\* combination that writes and flushes without error, trying none after it,
\* and returns false only after every combination has failed.
CombinationsInOrderUntilFirstSuccess ==
    /\ TriedInOrder
    /\ SendCommandReturned =>
         /\ esp_ret \in {"True", "False"}
         /\ (esp_ret = "True") <=>
              (tried # <<>> /\ tried[Len(tried)].outcome = "ok")
         /\ (esp_ret = "False") => AllCombinationsFailed

\* C18 amended: on a connected handler send_command tries the combinations in
\* that fixed order, returns true at the first combination that writes and
\* flushes without error, trying none after it, and returns false only after
\* every combination has failed; on a handler that is not connected it
\* returns false without trying any combination.
CombinationsInOrderWhenConnected ==
    /\ TriedInOrder
    /\ SendCommandReturned =>
         /\ esp_ret \in {"True", "False"}
         /\ (esp_ret = "True") <=>
              (tried # <<>> /\ tried[Len(tried)].outcome = "ok")
         /\ (esp_ret = "False") =>
              \/ AllCombinationsFailed
              \/ ~is_connected /\ tried = <<>>
         /\ is_connected => tried # <<>>

\* a command that ascii cannot encode went out on the fourth combination,
\* and a refused call returned false with nothing tried
CombinationsInOrderWitness ==
    /\ SendCommandReturned
    /\ esp_ret = "True"
    /\ Len(tried) = 4
    /\ tried[3].outcome = "encode_error"
    /\ tried[4].outcome = "ok"
    /\ wire = <<[line |-> "U+7A93\n", encoding |-> "utf-8"]>>

\* C19: a send failure never raises: on a handler that is not connected, and
\* when every combination fails with an encoding error or an error of the
\* serial write or flush, send and send_command return false and no
\* exception reaches the caller.
SendFailuresNeverRaise ==
    /\ esp_ret # "raised"
    /\ esp_pc = "done" => esp_ret \in {"True", "False"}
    /\ (SendCommandReturned /\ tried = <<>>) => esp_ret = "False"
    /\ (SendCommandReturned /\ AllCombinationsFailed) => esp_ret = "False"

\* every combination failed, by an encoding error, a write error and a flush
\* error, and the call returned false
SendFailuresNeverRaiseWitness ==
    /\ SendCommandReturned
    /\ AllCombinationsFailed
    /\ esp_ret = "False"
    /\ \E i \in 1..Len(tried) : tried[i].outcome = "encode_error"
    /\ \E i \in 1..Len(tried) : tried[i].outcome = "io_error"
    /\ \E i \in 1..Len(tried) : tried[i].outcome = "flush_error"

\* a call of send or send_command returns in this step
CallReturns == esp_pc # "done" /\ esp_pc' = "done"

CleanupReleasesOnce ==
    /\ emitted["stream_close"] <= 1
    /\ emitted["terminate"] <= 1
    /\ emitted["cleaned_up"] <= 1

\* a cleanup() has begun and not yet returned, and n "cleaned_up" statuses
\* were emitted before it
InCleanup(n) ==
    /\ cpc[Main] \in {"k_flags", "k_event", "k_timer", "k_join", "k_release",
                      "k_emit"}
    /\ emitted["cleaned_up"] = n

\* cleanup() has returned, the stream and the audio interface are released
\* and "cleaned_up" was emitted n + 1 times
CleanedUp(n) ==
    /\ cpc[Main] = "idle"
    /\ ret[Main] = "ok"
    /\ stream = "closed"
    /\ audio_interface = "terminated"
    /\ emitted["cleaned_up"] = n + 1

LoopExited(e) ==
    /\ e = episodes
    /\ audio_thread = e
    /\ thr[e] = "dead"

\* C23: whenever the capture loop has exited, the audio stream is not active.
StreamPausedAfterLoop == \A e \in Episodes : LoopExited(e) => stream # "active"

\* the step in which the function of watchdog timer t returns
WatchdogFires(t) == tmr[t] = "firing" /\ tmr'[t] = "dead"

\* C24: a firing watchdog only sets the cancellation signal: the flags, the
\* stream, the capture-thread handle and the timer handle stay as they are,
\* no callback is invoked, and when the engine is not listening nothing
\* changes at all.
WatchdogOnlySetsSignal ==
    [][\A t \in Episodes : WatchdogFires(t) =>
         /\ stop_event' = (stop_event \/ is_listening)
         /\ UNCHANGED <<is_initialized, is_listening, is_running,
                        shutdown_requested, auto_stop_duration,
                        auto_stop_timer, audio_thread, recognizer, stream,
                        audio_interface>>
         /\ UNCHANGED <<thr, ctlVars, obsVars, loopVars>>
         /\ ~is_listening => UNCHANGED stop_event]_vars

\* the watchdog has fired on a listening engine: the signal is set and the
\* engine still counts as listening
WatchdogOnlySetsSignalWitness ==
    /\ is_listening
    /\ ~shutdown_requested
    /\ stop_event
    /\ auto_stop_timer # None
    /\ tmr[auto_stop_timer] = "dead"

\* C25: the Partial and Final events of one episode reach the dispatcher one
\* after the other, in the order of the capture thread's passes: no event of
\* another episode reaches it between two of them.
EpisodeEventsAreContiguous ==
    \A i, k \in 1..Len(events) :
        (i < k /\ events[i] = events[k]) =>
            \A j \in i..k : events[j] = events[i]

\* the step in which stop_listening of controller c looks at the stream and
\* pauses it
PausesStream(c) == cpc[c] = "p_stream" /\ cpc'[c] # "p_stream"

\* C29: the control thread and the capture thread never touch the stream at
\* the same time: when stop_listening pauses the stream the cancellation
\* signal is set and no capture thread is in its read or availability query.
NoConcurrentStreamAccess ==
    [][\A c \in Controllers : PausesStream(c) =>
         /\ stop_event
         /\ \A e \in Episodes : thr[e] # "read"]_vars

\* C30: in the capture loop an input overflow does not end the loop and is
\* not passed to on_error; any other failure of a pass is passed to on_error
\* once, and the loop ends when on_error returns.
OnlyOverflowIsSurvived ==
    [][\A e \in Episodes :
         /\ (thr[e] = "overflow" /\ thr'[e] # "overflow") => thr'[e] = "poll"
         /\ (thr'[e] = "err" /\ thr[e] # "err") =>
                thr[e] \in {"read", "decode", "cb", "sent"}
         /\ (thr[e] = "err" /\ thr'[e] # "err") => thr'[e] = "dead"]_vars

\* one capture thread is at an input overflow while another reports a
\* failure through on_error
OnlyOverflowIsSurvivedWitness ==
    \E e1, e2 \in Episodes : thr[e1] = "overflow" /\ thr[e2] = "err"

\* ------------------------------------------------------------------------
\* Properties of the span SimpleESP32Handler.send decodes.

\* the number of "{" less the number of "}" among t[i..k]
RECURSIVE Depth(_, _, _)
Depth(t, i, k) ==
    IF k < i THEN 0
    ELSE Depth(t, i, k - 1)
           + (IF t[k] = "{" THEN 1 ELSE IF t[k] = "}" THEN 0 - 1 ELSE 0)

\* t[i..j] is a balanced {...} span
Balanced(t, i, j) ==
    /\ i < j
    /\ t[i] = "{"
    /\ t[j] = "}"
    /\ Depth(t, i, j) = 0
    /\ \A k \in i..(j - 1) : Depth(t, i, k) > 0

\* the text begins, after prose without braces, with a balanced span that
\* is a JSON object with a string action and a numeric degree, and a "}"
\* comes later in the text: the one of a second object, or a stray one
HasObjectThenBrace(t) ==
    \E i, j \in 1..Len(t) :
        /\ Balanced(t, i, j)
        /\ \A k \in 1..(i - 1) : t[k] \notin {"{", "}"}
        /\ \E k \in (j + 1)..Len(t) : t[k] = "}"
        /\ JsonDecodes(SubSeq(t, i, j))
        /\ Holding(SubSeq(t, i, j), "action") # {}
        /\ Holding(SubSeq(t, i, j), "degree") # {}
        /\ Get(SubSeq(t, i, j), "action", JNull).type = "str"
        /\ Get(SubSeq(t, i, j), "degree", JNull).type \in {"int", "float"}

\* the first balanced span of such a text
FirstObject(t) ==
    LET i == CHOOSE i \in 1..Len(t) : t[i] = "{"
        j == CHOOSE j \in 1..Len(t) : Balanced(t, i, j)
    IN  SubSeq(t, i, j)

\* C26: the translator decodes the first outermost balanced {...} span: for
\* a text with two balanced objects, or with a valid object and a stray "}"
\* after it, the command is built from the first object alone.
FirstObjectIsDecoded ==
    (esp_pc = "done" /\ HasObjectThenBrace(Strip(esp_text))) =>
        /\ Len(sc_calls) = 1
        /\ Flat(sc_calls[1]) = Canonical(FirstObject(Strip(esp_text)))

\* re.search found a span in the trimmed text and json.loads refuses it
SpanDoesNotDecode(t) ==
    /\ JsonMatch(Strip(t)) # <<>>
    /\ ~JsonDecodes(Strip(JsonMatch(Strip(t))))

\* C27: when a {...} span is found in the text but cannot be decoded as a
\* JSON object, the command is the entire trimmed text, and that text is
\* handed to send_command.
UndecodableSpanFallsBackToText ==
    (esp_pc = "done" /\ SpanDoesNotDecode(esp_text)) =>
        /\ command_to_send(esp_text) = Strip(esp_text)
        /\ sc_calls = <<Strip(esp_text)>>

\* a text with blanks around a span that is no JSON was handed over trimmed,
\* braces and all
UndecodableSpanWitness ==
    /\ esp_pc = "done"
    /\ esp_text = <<"{", "}", "}", Space>>
    /\ sc_calls = << <<"{", "}", "}">> >>
    /\ esp_ret = "True"

\* ------------------------------------------------------------------------
\* Properties of the path from an event to the actuator.

\* the step in which SimpleESP32Handler.send is called
ActuatorSendCalled == esp_pc # "idle" /\ esp_pc' = "idle"

\* the HTTP attempts that returned status 200 with a well-formed body
OkAttempts == {i \in 1..Len(responses) : responses[i] = "200"}

WatchdogSetsSignal(t) == AutoStopCallback(t) /\ ~stop_event /\ stop_event'

\* C31: a watchdog armed for one episode never cancels a later episode: as
\* long as the episodes are ended by stop_listening, the timer that sets the
\* cancellation signal is the timer of the episode that is running.
WatchdogCancelsOnlyItsEpisode ==
    [][\A t \in Episodes :
         (cleanups = 0 /\ WatchdogSetsSignal(t)) => t = episodes]_vars

\* start_listening leaves with an exception
StartRaises(c) == StartBlock(c) /\ ret'[c] = "raised"

\* C35: a start_listening that fails with an exception leaves the engine as
\* it was: is_listening false, no capture thread, no watchdog, and the next
\* start_listening is not taken for a call on a listening engine.
FailedStartChangesNothing ==
    [][\A c \in Controllers : StartRaises(c) =>
          /\ UNCHANGED engineVars
          /\ ~is_listening'
          /\ UNCHANGED threadVars]_vars

\* ------------------------------------------------------------------------
\* Properties of what reaches the serial link.

\* the lines that are the sentinel followed by a terminator
SentinelLines == {"move0" \o NewlineAt(k) : k \in 1..Combinations}

\* C36: the line written to the serial link is never the sentinel "move0"
\* followed by a terminator, whatever text send() was called with.
SentinelNeverOnTheWire ==
    \A i \in 1..Len(wire) : wire[i].line \notin SentinelLines

\* C37: when send_command returns True the command line has been written to
\* the serial link exactly once.
WrittenOnceWhenTrue ==
    (esp_pc = "done" /\ esp_ret = "True" /\ sc_calls # <<>>) => Len(wire) = 1

\* ------------------------------------------------------------------------
\* Properties of the capture thread against the control thread.

\* capture thread e hands an event to the dispatcher
EventDelivered(e) == events' = Append(events, e)

\* C32: once stop_listening has emitted "listening_stopped" for an episode,
\* no Partial or Final event of that episode is delivered, also when the
\* join on the capture thread timed out.
NoEventAfterStopped ==
    [][\A e \in Episodes : EventDelivered(e) => e \notin stopped]_vars

\* the capture threads that are inside a call of the recognizer
DecoderUsers == {e \in Episodes : thr[e] = "decode"}

\* a control thread calls FinalResult() of the recognizer, or replaces it
ControlUsesDecoder ==
    \/ \E c \in Controllers : StopFlush(c)
    \/ recognizer' # recognizer

\* C33: the decoder is never used by two threads at once: at most one
\* capture thread is inside it, and the final-result flush of stop_listening
\* and the decoder reset of start_listening happen while none is.
DecoderNeverShared ==
    /\ [](Cardinality(DecoderUsers) <= 1)
    /\ [][ControlUsesDecoder => DecoderUsers = {}]_vars

\* the cancellation signal is set while capture thread e runs
Signalled(e) == ThreadAlive(e) /\ stop_event

\* C34: every capture thread for which the cancellation signal was set
\* ends, provided its reads and callbacks return, also when start_listening
\* is called again before the thread has seen the signal.
SignalledThreadTerminates ==
    \A e \in Episodes : Signalled(e) ~> ~ThreadAlive(e)

====
